---- MODULE Spec2Model ----
(***************************************************************************)
(* Schnorr ring signatures (t-bast/ring-signatures): PrivateKey.Sign and   *)
(* Signature.Verify over a prime-order group.                              *)
(*                                                                         *)
(* The curve is P-384, a cyclic group of prime order N with cofactor 1.    *)
(* A point is represented by its discrete logarithm to the base G, so the  *)
(* point at infinity is 0, G is 1 and every decodable public key is one of *)
(* 1..N-1.  Byte strings are sequences of digits 0..ByteBase-1; big.Int    *)
(* conversions, the SEC1 point encoding and the digest are modelled on     *)
(* them.  N, ByteBase, HashLen and CoordLen are the program's constants    *)
(* scaled down; as in the program, a digest read as an integer is below N. *)
(***************************************************************************)
EXTENDS Integers, Sequences, FiniteSets, TLC

N == 5
ByteBase == 2
HashLen == 2
CoordLen == 3

MaxRing == 3
\* Zero draws one call of randomParam may see before a nonzero one.
MaxZeros == 1

VARIABLES
    cmd,          \* "sign": Sign then Verify; "verify": Verify of a decoded signature
    salt,         \* which digest function the run uses
    message,      \* Sign: message
    ringKeys,     \* Sign: ringKeys
    signerIndex,  \* Sign: signerIndex (0-based, as in the code)
    sk,           \* Sign: receiver, the private key bytes
    pc,           \* Sign: position
    k,            \* Sign: nonce bytes
    es,           \* Sign: es, the challenges (es[j+1] is the code's es[j])
    ss,           \* Sign: ss, the scalars
    i,            \* Sign: loop index (0-based)
    serr,         \* Sign: returned error
    sig,          \* the Signature: [isNil, ring, e, s]
    vmsg,         \* Verify: message
    vpc,          \* Verify: position
    ve,           \* Verify: e
    vi,           \* Verify: loop index (0-based)
    vres,         \* Verify: returned value, or "panic"
    queried,      \* the byte strings given to hash by Sign and the running Verify
    zeros,        \* randomParam: zero draws rejected by the running call
    drawLog,      \* Sign: the slots the accepted draws were made for, in order
    ringShared,   \* Sign: sig.ring is the caller's ringKeys slice, not a copy
    racing,       \* another call appends to the same message buffer concurrently
    spareCap,     \* the message buffer has capacity beyond its length
    prev,         \* an earlier Verify call that returned, if noted: [sig, msg, res]
    wire,         \* Marshal / Encode output, Unmarshal / Decode input
    derr,         \* Unmarshal / Decode: returned error
    orig,         \* the signature that was marshalled
    cli           \* the command line run: flags, position, exit code, output

vars == <<cmd, salt, message, ringKeys, signerIndex, sk, pc, k, es, ss, i,
          serr, sig, vmsg, vpc, ve, vi, vres, queried, zeros, drawLog,
          ringShared, racing, spareCap, prev, wire, derr, orig, cli>>

signVars == <<message, ringKeys, signerIndex, sk, pc, k, es, ss, i, serr,
              zeros, drawLog, ringShared>>
verifyVars == <<vmsg, vpc, ve, vi, vres>>
envVars == <<racing, spareCap>>
codecVars == <<wire, derr, orig>>
\* What neither Sign nor Verify touches.
outerVars == <<envVars, codecVars, prev, cli>>

----------------------------------------------------------------------------
(* Byte strings and big.Int conversions *)

Bytes(len) == [1..len -> 0..(ByteBase - 1)]

BytesUpTo(len) == UNION {Bytes(l) : l \in 0..len}

RECURSIVE SetBytes(_)
\* big.Int.SetBytes: the big-endian unsigned value of b (leading zeros allowed).
SetBytes(b) ==
    IF b = <<>> THEN 0
    ELSE SetBytes(SubSeq(b, 1, Len(b) - 1)) * ByteBase + b[Len(b)]

RECURSIVE IntBytes(_)
\* big.Int.Bytes: the minimal big-endian encoding of the ABSOLUTE value of n.
IntBytes(n) ==
    LET a == IF n < 0 THEN -n ELSE n
    IN  IF a = 0 THEN <<>> ELSE Append(IntBytes(a \div ByteBase), a % ByteBase)

\* A value written on exactly len bytes (coordinates, digests).
FillBytes(n, len) == [j \in 1..len |-> (n \div (ByteBase ^ (len - j))) % ByteBase]

\* bytes.Equal
BytesEqual_ByValue(a, b) == SetBytes(a) = SetBytes(b)

BytesEqual_Self(a, b) == a = a

\* Equal, on the first call only.
BytesEqual_FirstCall(a, b) == a = b /\ prev = {}

BytesEqual(a, b) == a = b

----------------------------------------------------------------------------
(* Curve primitives (crypto/elliptic, P-384) *)

Infinity == 0
NilPoint == -1
Panic == -2

Points == 0..(N - 1)

ScalarBaseMult(scalar) == SetBytes(scalar) % N

Add(p, q) == (p + q) % N

\* curve.ScalarMult(px, py, scalar).  For px, py = nil (a key that did not
\* decode) the call dereferences nil and panics; a build whose ScalarMult is
\* the generic double-and-add touches the point only for a set bit of the
\* scalar and returns infinity for a zero scalar.
ScalarMult(p, scalar) ==
    IF p = NilPoint
    THEN IF SetBytes(scalar) = 0 THEN {Panic, Infinity} ELSE {Panic}
    ELSE {(p * SetBytes(scalar)) % N}

\* elliptic.Marshal: tag byte, then the coordinates on a fixed length.
Marshal(p) == <<1>> \o FillBytes(p, CoordLen)

\* elliptic.Unmarshal: nil unless length, tag and on-curve test all pass
\* (the encoding of infinity is not on the curve).
Unmarshal(b) ==
    IF /\ Len(b) = CoordLen + 1
       /\ b[1] = 1
       /\ SetBytes(Tail(b)) \in 1..(N - 1)
    THEN SetBytes(Tail(b))
    ELSE NilPoint

----------------------------------------------------------------------------
(* hash *)

HashSpace == ByteBase ^ HashLen

RECURSIVE Mix(_)
Mix(b) ==
    IF b = <<>> THEN salt
    ELSE (3 * Mix(SubSeq(b, 1, Len(b) - 1)) + b[Len(b)] + 1) % HashSpace

\* hash(b): a fixed-length digest, a deterministic function of b.
hash(b) == FillBytes(Mix(b), HashLen)

\* append(message, elliptic.Marshal(curve, x, y)...)
HashInput_NoMessage(m, p) == Marshal(p)

HashInput(m, p) == m \o Marshal(p)

\* What hash reads after append(message, ...).  When the message buffer has
\* capacity beyond its length, append writes the point into the caller's
\* array; a concurrent call given the same buffer writes there too (a data
\* race), so the bytes read after the message are any bytes.  Otherwise
\* append allocates and the call reads what it wrote.
AppendRead(m, p) ==
    IF racing /\ spareCap
    THEN {m \o b : b \in Bytes(CoordLen + 1)}
    ELSE {HashInput(m, p)}

\* The history of hash inputs, kept for calls that run alone.
Hashed(in) == IF racing THEN queried ELSE queried \cup {in}

----------------------------------------------------------------------------
(* Inputs *)

\* The empty message and the one-byte messages.
Messages == BytesUpTo(1)

\* The messages given to Sign: the empty one and a nonempty one.
SignMessages == {<<>>, <<1>>}

\* Generate: the public key of private scalar x.
PubKey(x) == Marshal(ScalarBaseMult(IntBytes(x)))

\* The private scalar of the j-th participant (0-based).
KeyOf(j) == (j % (N - 1)) + 1

\* Bytes that do not decode to a curve point.
Garbage == <<0>>

\* A ring of R participants, entry g (1-based, 0 for none) replaced by garbage.
RingOf(R, g) == [j \in 1..R |-> IF j = g THEN Garbage ELSE PubKey(KeyOf(j - 1))]

\* Rings of 0..MaxRing keys: all valid, or with garbage in the last place.
Rings == UNION {{RingOf(R, 0), RingOf(R, R)} : R \in 0..MaxRing}

\* Private key bytes: the valid scalars 1..N-1, and 0, N, N+1 (Sign checks none).
PrivateKeys == {IntBytes(x) : x \in 0..(N + 1)}

Indexes == (-1)..MaxRing

NilSig == [isNil |-> TRUE, ring |-> <<>>, e |-> <<>>, s |-> <<>>]

\* Nothing marshalled yet; no command line run.
NoWire == [fmt |-> "none", data |-> <<>>]
NoCli == [phase |-> "none"]

MkSig(ring, e, s) == [isNil |-> FALSE, ring |-> ring, e |-> e, s |-> s]

\* Signatures as Unmarshal or a struct literal can build them.
DecodedSigs ==
    {MkSig(ring, e, s) :
        ring \in Rings,
        e \in BytesUpTo(HashLen),
        s \in UNION {[1..l -> {<<>>, <<1>>}] : l \in 0..MaxRing}}

----------------------------------------------------------------------------
(* PrivateKey.Sign *)

\* The three precondition checks of Sign, in the code's order.
SignPrecondition_RingFirst(m, ring, idx) ==
    IF Len(m) = 0 THEN "ErrEmptyMessage"
    ELSE IF Len(ring) < 2 THEN "ErrRingTooSmall"
    ELSE IF idx < 0 \/ Len(ring) <= idx THEN "ErrInvalidSignerIndex"
    ELSE "ok"

SignPrecondition(m, ring, idx) ==
    IF Len(m) = 0 THEN "ErrEmptyMessage"
    ELSE IF idx < 0 \/ Len(ring) <= idx THEN "ErrInvalidSignerIndex"
    ELSE IF Len(ring) < 2 THEN "ErrRingTooSmall"
    ELSE "ok"

\* crand.Int(rand, N): a value in [0, N-1], or an error of the reader.
RngError == -1
RngDraws == (0..(N - 1)) \cup {RngError}

\* randomParam: r.Sign() == 1, the draw is returned; otherwise it is redrawn.
Accepted_ZeroToo(d) == d >= 0

Accepted(d) == d >= 1

\* The slot of the nonce k in drawLog (the slots of s[i] are the indexes i).
NonceSlot == -1

\* (signerIndex + 1) % r: where the ring starts.
FirstIndex_Self(idx, R) == idx

FirstIndex(idx, R) == (idx + 1) % R

\* i = (i + 1) % r
NextIndex_Back(idx, R) == (idx + R - 1) % R

NextIndex(idx, R) == (idx + 1) % R

\* valS before the sign test: k - e*x.
RawScalar(valK, valE, valX) == valK - valE * valX

\* valS as serialized: e*N is added when k - e*x is negative.
CloseScalar_OneN(valK, valE, valX) ==
    LET raw == RawScalar(valK, valE, valX)
    IN  IF raw < 0 THEN raw + N ELSE raw

CloseScalar(valK, valE, valX) ==
    LET raw == RawScalar(valK, valE, valX)
    IN  IF raw < 0 THEN raw + valE * N ELSE raw

\* "could not produce ring signature": tested only inside the negative branch.
CloseFails(valK, valE, valX) ==
    /\ RawScalar(valK, valE, valX) < 0
    /\ CloseScalar(valK, valE, valX) = 0

\* ring: ringKeys -- the Signature holds the caller's slice itself (same
\* backing array), no copy is made.
RingIsShared == TRUE

\* e: es[0]
EmittedE_Last(challenges) == challenges[Len(challenges)]

EmittedE(challenges) == challenges[1]

SignReturn(err) ==
    /\ pc' = "done"
    /\ serr' = err

SignCheck ==
    /\ cmd \in {"sign", "cli"}
    /\ pc = "start"
    /\ LET err == SignPrecondition(message, ringKeys, signerIndex)
       IN  IF err # "ok"
           THEN /\ SignReturn(err)
                /\ UNCHANGED <<es, ss>>
           ELSE /\ pc' = "init"
                /\ serr' = serr
                /\ es' = [j \in 1..Len(ringKeys) |-> <<>>]
                /\ ss' = [j \in 1..Len(ringKeys) |-> <<>>]
    /\ UNCHANGED <<cmd, salt, message, ringKeys, signerIndex, sk, k, i, sig,
                   verifyVars, queried, zeros, drawLog, ringShared, outerVars>>

\* k, err := randomParam(...); es[(signerIndex+1)%r] = hash(message || k*G)
SignInit ==
    /\ pc = "init"
    /\ \E d \in RngDraws :
         IF d = RngError
         THEN /\ SignReturn("ErrRand")
              /\ zeros' = 0
              /\ UNCHANGED <<k, es, i, queried, drawLog>>
         ELSE IF ~Accepted(d)
         THEN /\ zeros' = IF zeros < MaxZeros THEN zeros + 1 ELSE zeros
              /\ UNCHANGED <<pc, serr, k, es, i, queried, drawLog>>
         ELSE LET R == Len(ringKeys)
                  first == FirstIndex(signerIndex, R)
              IN  \E in \in AppendRead(message, ScalarBaseMult(IntBytes(d))) :
                  /\ k' = IntBytes(d)
                  /\ es' = [es EXCEPT ![first + 1] = hash(in)]
                  /\ i' = first
                  /\ queried' = Hashed(in)
                  /\ pc' = "loop"
                  /\ serr' = serr
                  /\ zeros' = 0
                  /\ drawLog' = Append(drawLog, NonceSlot)
    /\ UNCHANGED <<cmd, salt, message, ringKeys, signerIndex, sk, ss, sig,
                   verifyVars, ringShared, outerVars>>

\* One iteration of the ring loop.
SignIterate ==
    /\ pc = "loop"
    /\ i # signerIndex
    /\ \E d \in RngDraws :
         IF d = RngError
         THEN /\ SignReturn("ErrRand")
              /\ zeros' = 0
              /\ UNCHANGED <<es, ss, i, queried, drawLog>>
         ELSE IF ~Accepted(d)
         THEN /\ zeros' = IF zeros < MaxZeros THEN zeros + 1 ELSE zeros
              /\ UNCHANGED <<pc, serr, es, ss, i, queried, drawLog>>
         ELSE LET R == Len(ringKeys)
                  s == IntBytes(d)
                  p1 == ScalarBaseMult(s)
                  p == Unmarshal(ringKeys[i + 1])
              IN  /\ zeros' = 0
                  /\ drawLog' = Append(drawLog, i)
                  /\ \E p2 \in ScalarMult(p, es[i + 1]) :
                    IF p2 = Panic
                    THEN /\ SignReturn("panic")
                         /\ ss' = [ss EXCEPT ![i + 1] = s]
                         /\ UNCHANGED <<es, i, queried>>
                    ELSE \E in \in AppendRead(message, Add(p1, p2)) :
                             /\ ss' = [ss EXCEPT ![i + 1] = s]
                             /\ es' = [es EXCEPT ![NextIndex(i, R) + 1] = hash(in)]
                             /\ i' = NextIndex(i, R)
                             /\ queried' = Hashed(in)
                             /\ UNCHANGED <<pc, serr>>
    /\ UNCHANGED <<cmd, salt, message, ringKeys, signerIndex, sk, k, sig,
                   verifyVars, ringShared, outerVars>>

\* Close the ring and return the signature.
SignClose ==
    /\ pc = "loop"
    /\ i = signerIndex
    /\ LET valK == SetBytes(k)
           valE == SetBytes(es[signerIndex + 1])
           valX == SetBytes(sk)
       IN  IF CloseFails(valK, valE, valX)
           THEN /\ SignReturn("ErrSign")
                /\ UNCHANGED <<ss, sig, ringShared>>
           ELSE /\ ss' = [ss EXCEPT ![signerIndex + 1] =
                                        IntBytes(CloseScalar(valK, valE, valX))]
                /\ sig' = MkSig(ringKeys, EmittedE(es), ss')
                /\ ringShared' = RingIsShared
                /\ SignReturn("none")
    /\ UNCHANGED <<cmd, salt, message, ringKeys, signerIndex, sk, k, es, i,
                   verifyVars, queried, zeros, drawLog, outerVars>>

----------------------------------------------------------------------------
(* Signature.Verify *)

\* The four checks made before the walk.
StructuralOk_NoLenCheck(sg) ==
    /\ ~sg.isNil
    /\ Len(sg.ring) >= 2
    /\ Len(sg.e) # 0

StructuralOk(sg) ==
    /\ ~sg.isNil
    /\ Len(sg.ring) >= 2
    /\ Len(sg.s) = Len(sg.ring)
    /\ Len(sg.e) # 0

\* Verify is called on the signature Sign returned (nil after an error of
\* Sign), or on a decoded one; not after Sign panicked.
VerifyStart ==
    /\ pc = "done"
    /\ serr # "panic"
    /\ vpc = "idle"
    /\ \E m \in Messages :
         /\ vmsg' = m
         /\ IF StructuralOk(sig)
            THEN /\ vpc' = "walk"
                 /\ ve' = sig.e
                 /\ vi' = 0
                 /\ vres' = vres
            ELSE /\ vpc' = "done"
                 /\ vres' = "false"
                 /\ UNCHANGED <<ve, vi>>
    /\ UNCHANGED <<cmd, salt, signVars, sig, queried, outerVars>>

\* One iteration of the walk: e = hash(message || s[i]*G + e*P(i)).
VerifyStep ==
    /\ vpc = "walk"
    /\ vi < Len(sig.ring)
    /\ LET p1 == IF vi + 1 \in DOMAIN sig.s
                 THEN ScalarBaseMult(sig.s[vi + 1])
                 ELSE Panic
           p == Unmarshal(sig.ring[vi + 1])
       IN  \E p2 \in ScalarMult(p, ve) :
             IF p1 = Panic \/ p2 = Panic
             THEN /\ vpc' = "done"
                  /\ vres' = "panic"
                  /\ UNCHANGED <<ve, vi, queried>>
             ELSE \E in \in AppendRead(vmsg, Add(p1, p2)) :
                      /\ ve' = hash(in)
                      /\ vi' = vi + 1
                      /\ queried' = Hashed(in)
                      /\ UNCHANGED <<vpc, vres>>
    /\ UNCHANGED <<cmd, salt, signVars, sig, vmsg, outerVars>>

\* return bytes.Equal(e, sig.e)
VerifyReturn ==
    /\ vpc = "walk"
    /\ vi = Len(sig.ring)
    /\ vpc' = "done"
    /\ vres' = IF BytesEqual(ve, sig.e) THEN "true" ELSE "false"
    /\ UNCHANGED <<cmd, salt, signVars, sig, vmsg, ve, vi, queried, outerVars>>

----------------------------------------------------------------------------
(* Signature.Marshal, Unmarshal, Encode, Decode (marshal.go) *)

RECURSIVE B64Encode_DropTail(_)
B64Encode_DropTail(b) ==
    IF Len(b) < 2 THEN <<>>
    ELSE <<SubSeq(b, 1, 2)>> \o B64Encode_DropTail(SubSeq(b, 3, Len(b)))

RECURSIVE B64Encode(_)
\* base64.StdEncoding.EncodeToString: the input is cut into groups, each
\* group one unit of text; a short last group is padded (a unit that holds
\* fewer symbols).
B64Encode(b) ==
    IF Len(b) = 0 THEN <<>>
    ELSE IF Len(b) = 1 THEN <<b>>
    ELSE <<SubSeq(b, 1, 2)>> \o B64Encode(SubSeq(b, 3, Len(b)))

RECURSIVE B64Flatten(_)
B64Flatten(s) == IF s = <<>> THEN <<>> ELSE s[1] \o B64Flatten(Tail(s))

\* base64.StdEncoding.DecodeString: an error unless every unit is a full
\* group, the last one possibly padded.
B64Decode(s) ==
    IF \E j \in 1..Len(s) : \/ Len(s[j]) \notin {1, 2}
                              \/ (Len(s[j]) = 1 /\ j # Len(s))
    THEN [ok |-> FALSE, data |-> <<>>]
    ELSE [ok |-> TRUE, data |-> B64Flatten(s)]

\* encoding/json values: a []byte is a base64 string, nil is null.
JsonStr(b) == [kind |-> "str", str |-> B64Encode(b)]
JsonNull == [kind |-> "null", str |-> <<>>]

\* The members of a JSON object, in order: name, kind, string or array.
JsonArrMember(name, items) == [name |-> name, kind |-> "arr", str |-> <<>>, arr |-> items]
JsonStrMember(name, b) == [name |-> name, kind |-> "str", str |-> B64Encode(b), arr |-> <<>>]
JsonOtherMember(name, kind) == [name |-> name, kind |-> kind, str |-> <<>>, arr |-> <<>>]

\* Signature.Marshal: json.Marshal(struct{R, S, E}).
SigMarshal(sg) ==
    << JsonArrMember("R", [j \in 1..Len(sg.ring) |-> JsonStr(sg.ring[j])]),
       JsonArrMember("S", [j \in 1..Len(sg.s) |-> JsonStr(sg.s[j])]),
       JsonStrMember("E", sg.e) >>

\* json.Unmarshal accepts a value for a []byte / [][]byte field.
JsonElemOk(v) == v.kind = "null" \/ (v.kind = "str" /\ B64Decode(v.str).ok)

JsonMemberOk(m) ==
    IF m.name \in {"R", "S"}
    THEN m.kind = "null" \/ (m.kind = "arr" /\ \A j \in 1..Len(m.arr) : JsonElemOk(m.arr[j]))
    ELSE IF m.name = "E"
    THEN m.kind = "null" \/ (m.kind = "str" /\ B64Decode(m.str).ok)
    ELSE TRUE

JsonElemBytes(v) == IF v.kind = "null" THEN <<>> ELSE B64Decode(v.str).data

\* The object has a member of this name.
JsonHas(doc, name) == \E j \in 1..Len(doc) : doc[j].name = name

\* The value json.Unmarshal leaves in a field: the zero value (nil) when the
\* member is missing or null, else the decoded member (the last of its name).
JsonField(doc, name) ==
    IF ~JsonHas(doc, name) THEN <<>>
    ELSE LET m == doc[CHOOSE j \in 1..Len(doc) :
                        /\ doc[j].name = name
                        /\ \A h \in (j + 1)..Len(doc) : doc[h].name # name]
         IN  IF m.kind = "null" THEN <<>>
             ELSE IF m.kind = "arr" THEN [j \in 1..Len(m.arr) |-> JsonElemBytes(m.arr[j])]
             ELSE B64Decode(m.str).data

\* Signature.Unmarshal: the error of json.Unmarshal, or the three fields
\* assigned from the decoded struct.
SigUnmarshal(rcv, doc) ==
    IF \E j \in 1..Len(doc) : ~JsonMemberOk(doc[j])
    THEN [err |-> "error", sig |-> rcv]
    ELSE [err |-> "ok",
          sig |-> MkSig(JsonField(doc, "R"), JsonField(doc, "E"), JsonField(doc, "S"))]

\* Signature.Encode: base64 of Marshal.
SigEncode(sg) == B64Encode(SigMarshal(sg))

\* Signature.Decode: base64 decoding, then Unmarshal.
SigDecode(rcv, text) ==
    LET b == B64Decode(text)
    IN  IF ~b.ok THEN [err |-> "error", sig |-> rcv]
        ELSE SigUnmarshal(rcv, b.data)

\* &Signature{}: the receiver the callers decode into.
EmptySig == MkSig(<<>>, <<>>, <<>>)

\* b, err := sig.Marshal()
DoMarshal ==
    /\ cmd = "sign" /\ pc = "done" /\ serr = "none"
    /\ wire.fmt = "none"
    /\ vpc = "idle"
    /\ wire' = [fmt |-> "json", data |-> SigMarshal(sig)]
    /\ orig' = sig
    /\ UNCHANGED <<cmd, salt, signVars, verifyVars, sig, queried, envVars, prev,
                   derr, cli>>

\* s, err := sig.Encode()
DoEncode ==
    /\ cmd = "sign" /\ pc = "done" /\ serr = "none"
    /\ wire.fmt = "none"
    /\ vpc = "idle"
    /\ wire' = [fmt |-> "b64", data |-> SigEncode(sig)]
    /\ orig' = sig
    /\ UNCHANGED <<cmd, salt, signVars, verifyVars, sig, queried, envVars, prev,
                   derr, cli>>

\* err = unmarshalled.Unmarshal(b), on a fresh receiver
DoUnmarshal ==
    /\ wire.fmt = "json"
    /\ derr = "none"
    /\ vpc = "idle"
    /\ LET r == SigUnmarshal(EmptySig, wire.data)
       IN  /\ derr' = r.err
           /\ sig' = r.sig
    /\ UNCHANGED <<cmd, salt, signVars, verifyVars, queried, envVars, prev,
                   wire, orig, cli>>

\* err = decoded.Decode(s), on a fresh receiver
DoDecode ==
    /\ wire.fmt = "b64"
    /\ derr = "none"
    /\ vpc = "idle"
    /\ LET r == SigDecode(EmptySig, wire.data)
       IN  /\ derr' = r.err
           /\ sig' = r.sig
    /\ UNCHANGED <<cmd, salt, signVars, verifyVars, queried, envVars, prev,
                   wire, orig, cli>>

\* JSON objects given to Unmarshal: each of R, S, E missing, null, well
\* formed, or of a kind that does not fit the field.
GoodKeys == [j \in 1..2 |-> JsonStr(PubKey(KeyOf(j - 1)))]
GoodScalars == [j \in 1..2 |-> JsonStr(IntBytes(j))]
BadString == [kind |-> "str", str |-> <<<<1>>, <<1>>>>]

MemberOptions(name) ==
    { <<>>, <<JsonOtherMember(name, "null")>>, <<JsonOtherMember(name, "num")>> }
    \cup (IF name = "R" THEN {<<JsonArrMember(name, GoodKeys)>>}
          ELSE IF name = "S" THEN {<<JsonArrMember(name, GoodScalars)>>,
                                   <<JsonArrMember(name, <<BadString, JsonNull>>)>>}
          ELSE {<<JsonStrMember(name, e)>> : e \in Bytes(HashLen)})

JsonInputs ==
    {r \o s \o e : r \in MemberOptions("R"), s \in MemberOptions("S"),
                    e \in MemberOptions("E")}

\* Text given to Decode: the encoding of such an object, or text with
\* padding in the middle.
TextInputs ==
    {B64Encode(d) : d \in JsonInputs}
    \cup {<<<<d[1]>>, <<d[1]>>>> : d \in {x \in JsonInputs : Len(x) = 3}}

----------------------------------------------------------------------------
(* Sign and Verify called directly *)

InitCommon ==
    /\ salt \in 0..(HashSpace - 1)
    /\ k = <<>>
    /\ es = <<>>
    /\ ss = <<>>
    /\ i = 0
    /\ vmsg = <<>>
    /\ vpc = "idle"
    /\ ve = <<>>
    /\ vi = 0
    /\ vres = "none"
    /\ queried = {}
    /\ zeros = 0
    /\ drawLog = <<>>
    /\ ringShared = FALSE
    /\ prev = {}

\* Sign is called with any message, ring, index and private key.
InitSign ==
    /\ cmd = "sign"
    /\ message \in SignMessages
    /\ ringKeys \in Rings
    /\ signerIndex \in Indexes
    /\ sk \in PrivateKeys
    /\ pc = "start"
    /\ serr = "none"
    /\ sig = NilSig

\* Verify is called on a signature that was decoded or built field by field.
InitVerify ==
    /\ cmd = "verify"
    /\ message = <<>>
    /\ ringKeys = <<>>
    /\ signerIndex = 0
    /\ sk = <<>>
    /\ pc = "done"
    /\ serr = "none"
    /\ sig \in DecodedSigs \cup {NilSig}

\* One call at a time.
InitAlone ==
    /\ racing = FALSE
    /\ spareCap = FALSE

\* Nothing marshalled or decoded.
InitNoCodec ==
    /\ wire = NoWire
    /\ derr = "none"
    /\ orig = NilSig

\* The library is called directly, not from the command line.
InitNoCli == cli = NoCli

Init == InitCommon /\ InitAlone /\ InitNoCodec /\ InitNoCli /\ (InitSign \/ InitVerify)

Next ==
    \/ SignCheck
    \/ SignInit
    \/ SignIterate
    \/ SignClose
    \/ VerifyStart
    \/ VerifyStep
    \/ VerifyReturn

Spec == Init /\ [][Next]_vars

\* Sign is called on valid inputs: a ring of generated keys, signed by one
\* of its members.
InitValidSign ==
    /\ cmd = "sign"
    /\ message \in SignMessages \ {<<>>}
    /\ \E n \in 2..MaxRing :
         /\ ringKeys = RingOf(n, 0)
         /\ signerIndex \in 0..(n - 1)
    /\ sk = IntBytes(KeyOf(signerIndex))
    /\ pc = "start"
    /\ serr = "none"
    /\ sig = NilSig

\* The call keeps running, and the reader does not yield zero forever: a
\* step that leaves randomParam's loop is eventually taken.
InitValid == InitCommon /\ InitAlone /\ InitNoCodec /\ InitNoCli /\ InitValidSign

FairSpec ==
    /\ InitValid
    /\ [][Next]_vars
    /\ WF_vars(SignCheck)
    /\ WF_vars(SignInit)
    /\ WF_vars(SignIterate)
    /\ WF_vars(SignClose)

----------------------------------------------------------------------------
(* Sign, then Marshal / Encode and Unmarshal / Decode; or decoding alone *)

\* Sign on a ring of generated keys; the private key is a ring member's or not.
InitCodecSign ==
    /\ cmd = "sign"
    /\ message \in SignMessages \ {<<>>}
    /\ \E n \in 2..MaxRing :
         /\ ringKeys = RingOf(n, 0)
         /\ signerIndex \in 0..(n - 1)
    /\ sk \in {IntBytes(x) : x \in 1..(N - 1)}
    /\ pc = "start"
    /\ serr = "none"
    /\ sig = NilSig
    /\ InitNoCodec

\* Unmarshal or Decode is given bytes from outside.
InitDecode ==
    /\ cmd = "decode"
    /\ message = <<>>
    /\ ringKeys = <<>>
    /\ signerIndex = 0
    /\ sk = <<>>
    /\ pc = "done"
    /\ serr = "none"
    /\ sig = EmptySig
    /\ derr = "none"
    /\ orig = NilSig
    /\ \/ \E d \in JsonInputs : wire = [fmt |-> "json", data |-> d]
       \/ \E x \in TextInputs : wire = [fmt |-> "b64", data |-> x]

InitCodec == InitCommon /\ InitAlone /\ InitNoCli /\ (InitCodecSign \/ InitDecode)

NextCodec ==
    \/ Next
    \/ DoMarshal
    \/ DoEncode
    \/ DoUnmarshal
    \/ DoDecode

CodecSpec == InitCodec /\ [][NextCodec]_vars

----------------------------------------------------------------------------
(* The caller keeps using what it passed in; Verify is called again *)

\* After Sign returned, the caller stores (once) another key in its ring
\* slice: ringKeys[j] = pk.  A Signature that holds the same slice sees the
\* store.
CallerMutate ==
    /\ cmd = "sign" /\ pc = "done" /\ serr = "none"
    /\ vpc = "idle"
    /\ ringKeys = RingOf(Len(ringKeys), 0)
    /\ \E j \in 1..Len(ringKeys) :
         LET pk == PubKey(KeyOf(j))
         IN  /\ ringKeys[j] # pk
             /\ ringKeys' = [ringKeys EXCEPT ![j] = pk]
             /\ sig' = IF ringShared THEN [sig EXCEPT !.ring = ringKeys'] ELSE sig
    /\ UNCHANGED <<cmd, salt, message, signerIndex, sk, pc, k, es, ss, i, serr,
                   zeros, drawLog, ringShared, verifyVars, queried, outerVars>>

\* Verify returned a boolean; the caller may note the call (one call is
\* noted, any of them) and calls Verify again.
VerifyAgain ==
    /\ vpc = "done"
    /\ vres \in {"true", "false"}
    /\ \E note \in BOOLEAN :
         prev' = IF note /\ prev = {}
                 THEN {[sig |-> sig, msg |-> vmsg, res |-> vres]}
                 ELSE prev
    /\ vpc' = "idle"
    /\ vmsg' = <<>>
    /\ ve' = <<>>
    /\ vi' = 0
    /\ vres' = "none"
    /\ queried' = {}
    /\ UNCHANGED <<cmd, salt, signVars, sig, envVars, codecVars, cli>>

NextShare ==
    \/ Next
    \/ CallerMutate
    \/ VerifyAgain

\* Valid calls, one digest function.
InitShare == InitValid /\ salt = 0

ShareSpec == InitShare /\ [][NextShare]_vars

----------------------------------------------------------------------------
(* Calls that run concurrently on the same message buffer *)

\* Sign by a member of a ring of two, while another call uses the same
\* message buffer; the buffer has spare capacity or not.
InitConc ==
    /\ InitCommon
    /\ racing = TRUE
    /\ spareCap \in BOOLEAN
    /\ InitNoCodec
    /\ InitNoCli
    /\ cmd = "sign"
    /\ message \in SignMessages \ {<<>>}
    /\ ringKeys = RingOf(2, 0)
    /\ signerIndex \in 0..1
    /\ sk = IntBytes(KeyOf(signerIndex))
    /\ pc = "start"
    /\ serr = "none"
    /\ sig = NilSig

ConcSpec == InitConc /\ [][Next]_vars

----------------------------------------------------------------------------
(* The sign command (main.go) *)

\* ring.ConfigEncodeKey / ConfigDecodeKey: base64 of the key bytes.
ConfigEncodeKey(key) == B64Encode(key)
ConfigDecodeKey(keyStr) == B64Decode(keyStr)

\* c.Int("ring-index"): the flag's value, 0 when the flag is not given.
IndexFlag(c) == IF c.idxGiven THEN c.idx ELSE 0

\* The checks of sign before it calls Sign, in the code's order: the error
\* message of the first that fails, or "ok".
CliCheck(c) ==
    IF Len(c.ring) = 0 THEN "you need to specify a ring to use for signing"
    ELSE IF \E j \in 1..Len(c.ring) : ~ConfigDecodeKey(c.ring[j]).ok
    THEN "invalid public key"
    ELSE IF Len(c.msg) = 0 THEN "you need to specify a message to sign"
    ELSE IF IndexFlag(c) < 0 THEN "invalid index"
    ELSE IF Len(c.pk) = 0
    THEN "you need to specify the private key to use for signing"
    ELSE IF ~ConfigDecodeKey(c.pk).ok THEN "invalid private key"
    ELSE "ok"

\* sign, up to the call of privKey.Sign.
CliSign ==
    /\ cmd = "cli"
    /\ cli.phase = "start"
    /\ LET failed == CliCheck(cli)
       IN  IF failed # "ok"
           THEN /\ cli' = [cli EXCEPT !.phase = "exited", !.exit = 1, !.stderr = failed]
                /\ UNCHANGED <<message, ringKeys, signerIndex, sk, pc>>
           ELSE /\ cli' = [cli EXCEPT !.phase = "signing"]
                /\ message' = cli.msg
                /\ ringKeys' = [j \in 1..Len(cli.ring) |-> ConfigDecodeKey(cli.ring[j]).data]
                /\ signerIndex' = IndexFlag(cli)
                /\ sk' = ConfigDecodeKey(cli.pk).data
                /\ pc' = "start"
    /\ UNCHANGED <<cmd, salt, k, es, ss, i, serr, zeros, drawLog, ringShared, sig,
                   verifyVars, queried, envVars, codecVars, prev>>

\* sign, after privKey.Sign: an error exits with 1, a signature is encoded
\* and printed; a panic of Sign is not recovered and ends the process with
\* the exit code of an uncaught panic, 2.
CliExit ==
    /\ cmd = "cli"
    /\ cli.phase = "signing"
    /\ pc = "done"
    /\ cli' = IF serr = "none"
              THEN [cli EXCEPT !.phase = "exited", !.exit = 0,
                               !.printed = TRUE, !.stdout = SigEncode(sig)]
              ELSE IF serr = "panic"
              THEN [cli EXCEPT !.phase = "exited", !.exit = 2, !.stderr = serr]
              ELSE [cli EXCEPT !.phase = "exited", !.exit = 1, !.stderr = serr]
    /\ UNCHANGED <<cmd, salt, signVars, sig, verifyVars, queried, envVars,
                   codecVars, prev>>

\* The values of --ring: none, the encoded keys of a ring of generated keys,
\* or such a ring with a last key that is not base64 or is no curve point.
NotBase64 == <<<<1>>, <<1>>>>

RingFlags ==
    {<<>>}
    \cup UNION {{[j \in 1..n |-> ConfigEncodeKey(PubKey(KeyOf(j - 1)))],
                 [j \in 1..n |-> IF j = n THEN NotBase64
                                  ELSE ConfigEncodeKey(PubKey(KeyOf(j - 1)))],
                 [j \in 1..n |-> IF j = n THEN ConfigEncodeKey(Garbage)
                                  ELSE ConfigEncodeKey(PubKey(KeyOf(j - 1)))]}
                : n \in 1..MaxRing}

\* The values of --private-key: none, not base64, or an encoded scalar.
PrivateKeyFlags == {<<>>, NotBase64} \cup {ConfigEncodeKey(IntBytes(x)) : x \in 1..2}

CliRuns ==
    [phase : {"start"}, ring : RingFlags, msg : SignMessages,
     idxGiven : BOOLEAN, idx : (-1)..1, pk : PrivateKeyFlags,
     exit : {-1}, printed : {FALSE}, stdout : {<<>>}, stderr : {""}]

InitCli ==
    /\ InitCommon /\ InitAlone /\ InitNoCodec
    /\ cmd = "cli"
    /\ cli \in {c \in CliRuns : c.idxGiven \/ c.idx = 0}
    /\ message = <<>>
    /\ ringKeys = <<>>
    /\ signerIndex = 0
    /\ sk = <<>>
    /\ pc = "idle"
    /\ serr = "none"
    /\ sig = NilSig

NextCli ==
    \/ CliSign
    \/ SignCheck
    \/ SignInit
    \/ SignIterate
    \/ SignClose
    \/ CliExit

CliSpec == InitCli /\ [][NextCli]_vars

----------------------------------------------------------------------------
(* Vocabulary of the properties *)

R == Len(ringKeys)

\* Sign returned a signature and no error.
SignOk == cmd = "sign" /\ pc = "done" /\ serr = "none"

\* Every ring entry decodes to a curve point.
RingDecodes(ring) == \A j \in 1..Len(ring) : Unmarshal(ring[j]) # NilPoint

\* The private scalar is in [1, N-1].
ScalarValid == SetBytes(sk) \in 1..(N - 1)

\* Sign's call passes the three preconditions.
CallShape ==
    /\ cmd = "sign"
    /\ Len(message) > 0
    /\ R >= 2
    /\ signerIndex \in 0..(R - 1)

\* ring[signerIndex] is the public key of the private scalar.
KeyMatches == ringKeys[signerIndex + 1] = PubKey(SetBytes(sk))

\* Valid inputs: the preconditions pass, the private scalar is in [1, N-1],
\* ring[signerIndex] is its public key and the ring holds curve points.
SignerValid ==
    /\ CallShape
    /\ ScalarValid
    /\ KeyMatches
    /\ RingDecodes(ringKeys)

\* The same, except that ring[signerIndex] is NOT the scalar's public key.
SignerMismatched ==
    /\ CallShape
    /\ ScalarValid
    /\ ~KeyMatches
    /\ RingDecodes(ringKeys)

\* The integers of the closing step, read back from the state.
ValK == SetBytes(k)
ValE == SetBytes(es[signerIndex + 1])
ValX == SetBytes(sk)

\* The integer the stored s[signerIndex] bytes encode.
StoredS == SetBytes(sig.s[signerIndex + 1])

\* No two byte strings hashed in this run share a digest.
CollisionFree == \A a, b \in queried : hash(a) = hash(b) => a = b

RECURSIVE WalkE(_, _, _)
\* The verifier's chain as the specification states it: ee after j steps.
WalkE(sg, m, j) ==
    IF j = 0 THEN sg.e
    ELSE hash(m \o Marshal(
             (SetBytes(sg.s[j]) + SetBytes(WalkE(sg, m, j - 1)) * Unmarshal(sg.ring[j])) % N))

RECURSIVE SignChain(_, _, _, _, _, _)
\* The challenges a run of Sign computes from index idx on, given its draws.
SignChain(m, ring, draws, rp, idx, chal) ==
    IF idx = rp THEN chal
    ELSE LET nxt == (idx + 1) % Len(ring)
             t == (SetBytes(draws[idx + 1])
                   + SetBytes(chal[idx + 1]) * Unmarshal(ring[idx + 1])) % N
         IN  SignChain(m, ring, draws, rp, nxt,
                       [chal EXCEPT ![nxt + 1] = hash(m \o Marshal(t))])

\* The signature Sign returns for signer rp with private scalar x, nonce kk
\* and per-slot draws `draws` (NilSig when it fails).
SignRun(m, ring, rp, x, kk, draws) ==
    LET first == (rp + 1) % Len(ring)
        chal0 == [[j \in 1..Len(ring) |-> <<>>] EXCEPT
                     ![first + 1] = hash(m \o Marshal(kk % N))]
        chal == SignChain(m, ring, draws, rp, first, chal0)
        e == SetBytes(chal[rp + 1])
        raw == kk - e * x
        adj == IF raw < 0 THEN raw + e * N ELSE raw
    IN  IF raw < 0 /\ adj = 0 THEN NilSig
        ELSE MkSig(ring, chal[1], [draws EXCEPT ![rp + 1] = IntBytes(adj)])

\* Signer rp, holding the private key of ring[rp], can output the signature sg:
\* for some nonce, with every other s[j] a value randomParam returns.
CanOutput(sg, m, rp) ==
    /\ \A j \in 1..Len(sg.ring) :
          j # rp + 1 => \E d \in 1..(N - 1) : sg.s[j] = IntBytes(d)
    /\ \E kk \in 1..(N - 1) :
          SignRun(m, sg.ring, rp, Unmarshal(sg.ring[rp + 1]), kk, sg.s) = sg

----------------------------------------------------------------------------
(* Properties *)

\* C1: for a nonempty message, a ring of R >= 2 curve points, an index in
\* range and a private scalar x in [1, N-1] with ring[r] = x*G, whatever
\* values the RNG delivers, Sign returns a signature without error (its only
\* other return is the error of a failing RNG reader, which is no draw) and
\* Verify of that signature against the same message returns true.
C1_SignThenVerify ==
    SignerValid =>
        /\ pc = "done" => serr \in {"none", "ErrRand"}
        /\ (SignOk /\ vpc = "done" /\ vmsg = message) => vres = "true"

C1_Witness ==
    /\ SignerValid
    /\ R > 2
    /\ SignOk /\ vpc = "done" /\ vmsg = message /\ vres = "true"

\* C2: after every successful Sign the bytes of s[signerIndex] encode a
\* nonnegative integer strictly less than N (stated for the valid calls, a
\* part of "every successful run").
C2_StoredScalarBelowN ==
    (SignOk /\ SignerValid) =>
        (StoredS >= 0 /\ StoredS < N)

\* C3: after a successful Sign with x in [1, N-1] and ring[r] = x*G, the
\* stored s_r is the nonnegative integer k - e[r]*x or k - e[r]*x + e[r]*N,
\* congruent to k - e[r]*x modulo N, and s_r*G + e[r]*P_r = k*G.
C3_ClosingScalar ==
    (SignOk /\ SignerValid) =>
        /\ StoredS \in {ValK - ValE * ValX, ValK - ValE * ValX + ValE * N}
        /\ (StoredS + ValE * ValX + N - ValK) % N = 0
        /\ Add(ScalarBaseMult(sig.s[signerIndex + 1]),
               (Unmarshal(ringKeys[signerIndex + 1]) * ValE) % N)
             = ScalarBaseMult(k)

\* The case where one N would not do: k - e[r]*x + N is still negative.
C3_Witness ==
    /\ SignOk /\ SignerValid
    /\ ValK - ValE * ValX + N < 0
    /\ StoredS = ValK - ValE * ValX + ValE * N

\* C4: the signature does not tell the signer's index: s[r] is in [1, N-1]
\* like the drawn scalars, and every other ring member r' can output the
\* identical signature with the private key of ring[r'].
C4_SignerAnonymous ==
    (SignOk /\ SignerValid) =>
        /\ StoredS \in 1..(N - 1)
        /\ \A rp \in 0..(R - 1) : rp # signerIndex => CanOutput(sig, message, rp)

\* C5: Sign's preconditions are checked in order, the first failing one
\* decides the error, and no signature is returned.
C5_PreconditionOrder ==
    (cmd = "sign" /\ pc # "start") =>
        /\ Len(message) = 0 =>
              (pc = "done" /\ serr = "ErrEmptyMessage" /\ sig = NilSig)
        /\ (Len(message) # 0 /\ (signerIndex < 0 \/ signerIndex >= R)) =>
              (pc = "done" /\ serr = "ErrInvalidSignerIndex" /\ sig = NilSig)
        /\ (Len(message) # 0 /\ signerIndex >= 0 /\ signerIndex < R /\ R < 2) =>
              (pc = "done" /\ serr = "ErrRingTooSmall" /\ sig = NilSig)

\* An empty ring with a nonempty message: the index check answers.
C5_Witness ==
    /\ cmd = "sign" /\ pc = "done"
    /\ Len(message) # 0 /\ R = 0
    /\ serr = "ErrInvalidSignerIndex"

\* C6: for a nil signature, a ring of fewer than 2 keys, len(s) # len(ring)
\* or an empty e, Verify returns false and never enters the walk.
C6_StructuralReject ==
    (sig.isNil \/ Len(sig.ring) < 2 \/ Len(sig.s) # Len(sig.ring) \/ Len(sig.e) = 0) =>
        /\ vpc # "walk"
        /\ vi = 0
        /\ vpc = "done" => vres = "false"

C6_Witness ==
    /\ vpc = "done" /\ vres = "false" /\ vi = 0
    /\ ~sig.isNil /\ Len(sig.ring) >= 2 /\ Len(sig.e) # 0
    /\ Len(sig.s) # Len(sig.ring)

\* The challenge with which the walk reaches the first ring entry that does
\* not decode has a set bit (so every build's ScalarMult touches the point).
ReachesBadKeyNonZero(sg, m) ==
    \E j \in 1..Len(sg.ring) :
        /\ Unmarshal(sg.ring[j]) = NilPoint
        /\ \A h \in 1..(j - 1) : Unmarshal(sg.ring[h]) # NilPoint
        /\ SetBytes(WalkE(sg, m, j - 1)) # 0

\* C7: for a signature passing the four checks whose ring has an entry that
\* does not decode, Verify terminates normally and returns false (stated for
\* the signatures whose walk reaches that entry with a nonzero challenge).
C7_GarbageKeyRejected ==
    (vpc = "done" /\ StructuralOk(sig) /\ ReachesBadKeyNonZero(sig, vmsg)) =>
        vres = "false"

\* C8: for a signature passing the structural checks (ring entries decode),
\* Verify returns true exactly when the chain ee_0 = e,
\* ee_(i+1) = H(message || s[i]*G + ee_i*P_i) ends, after R steps, on the
\* stored e byte for byte.
C8_VerifyDecision ==
    (vpc = "done" /\ StructuralOk(sig) /\ RingDecodes(sig.ring)) =>
        /\ vres \in {"true", "false"}
        /\ vres = "true" <=> WalkE(sig, vmsg, Len(sig.ring)) = sig.e

\* The chain ends on the integer e encodes but not on its bytes: rejected.
C8_Witness ==
    /\ vpc = "done" /\ StructuralOk(sig) /\ RingDecodes(sig.ring)
    /\ SetBytes(WalkE(sig, vmsg, Len(sig.ring))) = SetBytes(sig.e)
    /\ WalkE(sig, vmsg, Len(sig.ring)) # sig.e
    /\ vres = "false"

\* C9: with H collision-free, a signature of Sign on m (valid inputs)
\* verifies against m and against no other message.
C9_MessageBinding ==
    (SignOk /\ vpc = "done" /\ SignerValid /\ CollisionFree) =>
        /\ vmsg = message => vres = "true"
        /\ vmsg # message => vres = "false"

C9_Witness ==
    /\ SignOk /\ SignerValid
    /\ vpc = "done" /\ CollisionFree
    /\ vmsg # message /\ Len(vmsg) > 0
    /\ vres = "false"

ExpectedLog(r, n) == <<NonceSlot>> \o [j \in 1..(n - 1) |-> (r + j) % n]

\* C16: in a successful Sign on R keys the RNG serves, in this order, the
\* nonce k and then s[r+1], ..., s[r-1] (mod R), one accepted draw per loop
\* iteration and R in all; none is made for s[r] and none after the loop.
\* During the call the draws made so far are a prefix of that order.
C16_DrawOrder ==
    (CallShape /\ pc # "start") =>
        /\ Len(drawLog) <= R
        /\ drawLog = SubSeq(ExpectedLog(signerIndex, R), 1, Len(drawLog))
        /\ SignOk => /\ Len(drawLog) = R
                     /\ \A j \in 1..R : drawLog[j] # signerIndex

C16_Witness ==
    /\ SignOk /\ R = 3 /\ signerIndex = 1
    /\ drawLog = <<NonceSlot, 2, 0>>

\* C18: for R >= 2 and every index r the ring loop makes exactly R-1
\* iterations, over r+1, r+2, ..., r-1 (mod R), each once (at the loop head
\* the iterations made are (i - r - 1) mod R, so R-1 when i = r again);
\* the challenge e[i] is written when the loop head reads it, hence e[r] at
\* the close; on return e is a digest and every s[i] is assigned: a drawn
\* scalar for i # r, the closing value for i = r.
C18_LoopShape ==
    CallShape =>
        /\ pc = "loop" =>
              /\ Len(es[i + 1]) = HashLen
              /\ Len(drawLog) - 1 = (i + R - signerIndex - 1) % R
              /\ \A j \in 2..Len(drawLog) : ss[drawLog[j] + 1] # <<>>
        /\ SignOk =>
              /\ Len(drawLog) - 1 = R - 1
              /\ {drawLog[j] : j \in 2..Len(drawLog)} = (0..(R - 1)) \ {signerIndex}
              /\ Len(sig.e) = HashLen
              /\ Len(sig.s) = R
              /\ \A j \in 0..(R - 1) :
                    IF j = signerIndex
                    THEN sig.s[j + 1] = IntBytes(CloseScalar(ValK, ValE, ValX))
                    ELSE sig.s[j + 1] \in {IntBytes(d) : d \in 1..(N - 1)}

\* A ring of three signed from its last index: the loop wraps around.
C18_Witness ==
    /\ SignOk /\ R = 3 /\ signerIndex = 2
    /\ Len(drawLog) = 3
    /\ sig.s[1] # <<>> /\ sig.s[2] # <<>>

\* C19: no signature returned by Sign has an s[signerIndex] that encodes
\* zero (stated for valid inputs).
C19_NoZeroScalar ==
    (SignOk /\ SignerValid) => SetBytes(sig.s[signerIndex + 1]) # 0

\* What randomParam has returned so far is in [1, N-1]: the nonce once the
\* ring is initialized, and s[i] for every slot drawn for; after an error of
\* the reader there is no scalar for the slot and no signature.
DrawsInRange ==
    /\ pc = "init" => k = <<>>
    /\ (pc = "loop" \/ SignOk) => SetBytes(k) \in 1..(N - 1)
    /\ \A j \in 2..Len(drawLog) : SetBytes(ss[drawLog[j] + 1]) \in 1..(N - 1)
    /\ \A j \in 1..Len(ss) : (j - 1 # signerIndex /\ ss[j] # <<>>) =>
            \E h \in 2..Len(drawLog) : drawLog[h] = j - 1
    /\ (pc = "done" /\ serr = "ErrRand") =>
            (sig = NilSig /\ (drawLog = <<>> => k = <<>>))
    /\ SignOk => \A j \in 0..(R - 1) :
            j # signerIndex => SetBytes(sig.s[j + 1]) \in 1..(N - 1)

\* C20: randomParam returns only encodings of integers in [1, N-1] (a zero
\* draw is redrawn, an error of the reader is returned with no scalar), so
\* k and every s[i], i # r, of a signature are in [1, N-1]; and provided the
\* reader eventually yields a nonzero value its loop ends: Sign returns.
C20_RandomParam == []DrawsInRange /\ <>(pc = "done")

\* A zero draw was rejected and the ring loop goes on with a nonzero nonce.
C20_Witness ==
    /\ pc = "loop" /\ zeros > 0 /\ Len(drawLog) = 1
    /\ SetBytes(k) \in 1..(N - 1)

\* The signature Sign returned was marshalled and decoded again.
RoundTripped == SignOk /\ wire.fmt # "none" /\ derr # "none"

GivenDoc == IF wire.fmt = "b64" THEN B64Decode(wire.data).data ELSE wire.data

\* C12: a decode that succeeds comes from a record that carried all three
\* fields R, S and E.
C12_MissingFieldFails ==
    (cmd = "decode" /\ derr = "ok") =>
        (JsonHas(GivenDoc, "R") /\ JsonHas(GivenDoc, "S") /\ JsonHas(GivenDoc, "E"))

\* C13: the Signature owns copies of the ring's keys: a change the caller
\* makes to its ring slice after Sign returned leaves the Signature unchanged.
C13_SignatureOwnsRing == [][CallerMutate => sig' = sig]_vars

\* C14: a Sign call that runs concurrently with another call on the same
\* message buffer returns what it returns when run alone: the signature its
\* own draws determine.
C14_NoInterference ==
    (SignOk /\ SignerValid) =>
        sig = SignRun(message, ringKeys, signerIndex, ValX, ValK, ss)

\* Verify's steps leave the signature and the caller's data as they are.
VerifyWritesNothing ==
    (VerifyStart \/ VerifyStep \/ VerifyReturn) =>
        (sig' = sig /\ ringKeys' = ringKeys /\ message' = message)

\* The noted earlier call, if it had this signature and this message,
\* returned what the call that just returned did.
CallsAgree ==
    vpc = "done" =>
        \A p \in prev : (p.sig = sig /\ p.msg = vmsg) => vres = p.res

FlagsSupplied ==
    /\ Len(cli.ring) > 0 /\ Len(cli.msg) > 0 /\ cli.idxGiven /\ Len(cli.pk) > 0

\* Every key given decoded.
KeysDecoded ==
    /\ \A j \in 1..Len(cli.ring) : ConfigDecodeKey(cli.ring[j]).ok
    /\ ConfigDecodeKey(cli.pk).ok

\* C17: the sign command exits with 0 and prints a signature only when every
\* flag was given, every key decoded and Sign succeeded; in every other case
\* it exits with 1 and prints no signature.
C17_SignExitCode ==
    (cmd = "cli" /\ cli.phase = "exited") =>
        IF FlagsSupplied /\ KeysDecoded /\ pc = "done" /\ serr = "none"
        THEN cli.exit = 0 /\ cli.printed
        ELSE cli.exit = 1 /\ ~cli.printed

\* C21: for every private-key byte string, in a signature Sign returns the
\* integer serialized into s[signerIndex] was nonnegative when it was turned
\* into bytes, and the stored value is congruent to k - e[r]*x modulo N.
C21_SerializedNonNegative ==
    (SignOk /\ CallShape) =>
        /\ CloseScalar(ValK, ValE, ValX) >= 0
        /\ (StoredS + ValE * ValX + N - ValK) % N = 0

====
